---- MODULE Spec2Model ----
(***************************************************************************)
(* Library catalog on two red-black trees (src/library_catalog.py) and the *)
(* Flask boundary that drives it (src/app.py).                             *)
(*                                                                         *)
(* A tree is a record [root, n, rot]: n maps node identities to nodes      *)
(* [key, value, left, right, parent, color]; identity 0 is the tree's      *)
(* sentinel self.NIL, which is a node like any other (its parent field is  *)
(* written by _transplant).  rot is a ghost counter of the rotations done  *)
(* by the operation in progress.                                           *)
(*                                                                         *)
(* Text is a tuple of ASCII codes, so that lower(), startswith() and the   *)
(* ordering of str are computed, not assumed.                              *)
(***************************************************************************)
EXTENDS Integers, Sequences, FiniteSets, TLC

VARIABLES by_id, by_title, last, tree, tlast, ref, req, seen, call

\* The catalog and the call made on it last.
catVars == <<by_id, by_title, last>>

\* The stand-alone tree, the call made on it last, the finite map that is
\* given the same calls, and the place of the call that is running on it.
treeVars == <<tree, tlast, ref, call>>

\* The requests the server's threads are handling, and what the last
\* request for the home page read.
srvVars == <<req, seen>>

vars == <<catVars, treeVars, srvVars>>

(* ------------------------------ bounds --------------------------------- *)

\* Positive identifiers offered to the catalog are 1..MaxId.
MaxId == 2

\* Keys offered to the stand-alone tree are 1..MaxKey.
MaxKey == 5

\* Width of the machine word that sys.maxsize is derived from, scaled down
\* from 64: sys.maxsize = 2^(WordBits-1) - 1.
WordBits == 3

\* Longest batch of a bulk load.
MaxBatch == 2

\* Requests the server handles at a time.
MaxThreads == 2

(* ------------------------------ values --------------------------------- *)

RED == "RED"

BLACK == "BLACK"

\* Python's None (the sentinel's key and value, a missing result).
None == "None"

\* Identity of the sentinel node self.NIL.
NIL == 0

\* What a reference to a node that is no longer linked into the tree is
\* shown as, once the operation that unlinked it has returned.
Detached == -1

\* sys.maxsize, for a word of WordBits bits.
sys_maxsize == 2^(WordBits - 1) - 1

\* The least integer of the signed word.
IntMin == -(2^(WordBits - 1))

\* A title that is not a str (JSON null or a number): it has no lower().
NotText == <<-1>>

IsStr(s) == s # NotText

\* str.lower() on ASCII text.
StrLower(s) == [i \in 1..Len(s) |-> IF s[i] \in 65..90 THEN s[i] + 32 ELSE s[i]]

\* str.startswith(p).
StartsWith(s, p) == Len(p) <= Len(s) /\ SubSeq(s, 1, Len(p)) = p

\* Python's < on str: lexicographic on code points, a proper prefix first.
RECURSIVE StrLT(_, _)
StrLT(a, b) ==
  IF b = <<>> THEN FALSE
  ELSE IF a = <<>> THEN TRUE
  ELSE IF Head(a) # Head(b) THEN Head(a) < Head(b)
  ELSE StrLT(Tail(a), Tail(b))

\* A key is held as the tuple of its components: the int key k of by_id as
\* <<k>>, the key (title_lower, book_id) of by_title as it is.
IntKey(k) == <<k>>

\* Python's < on keys: int < int, or (str, int) < (str, int) as tuples.
KeyLT(a, b) ==
  IF Len(a) = 1 THEN a[1] < b[1]
  ELSE IF a[1] # b[1] THEN StrLT(a[1], b[1])
  ELSE a[2] < b[2]

KeyGE(a, b) == ~KeyLT(a, b)

(* ------------------------------ RBTree --------------------------------- *)

\* RBNode(key, value, color, left, right, parent)
RBNode(key, value, color, left, right, parent) ==
  [key |-> key, value |-> value, left |-> left, right |-> right,
   parent |-> parent, color |-> color]

\* RBTree(): one sentinel, its own children and parent, BLACK; root = NIL.
EmptyTree ==
  [root |-> NIL, n |-> (NIL :> RBNode(None, None, BLACK, NIL, NIL, NIL)), rot |-> 0]

\* x.f = v
Set(T, x, f, v) == [T EXCEPT !.n[x][f] = v]

\* Statements in sequence: the value v of what has run so far is handed to
\* the rest, Rest.  v is taken from a set so that it is computed once.
Then(v, Rest(_)) == CHOOSE r \in {Rest(x) : x \in {v}} : TRUE

LeftRotate(T, x) ==
  LET y == T.n[x].right
  IN Then(Set(T, x, "right", T.n[y].left), LAMBDA T1 :
     Then(IF T1.n[y].left # NIL THEN Set(T1, T1.n[y].left, "parent", x) ELSE T1,
          LAMBDA T2 :
     Then(Set(T2, y, "parent", T2.n[x].parent), LAMBDA T3 :
     Then(IF T3.n[x].parent = NIL THEN [T3 EXCEPT !.root = y]
          ELSE IF x = T3.n[T3.n[x].parent].left
               THEN Set(T3, T3.n[x].parent, "left", y)
               ELSE Set(T3, T3.n[x].parent, "right", y), LAMBDA T4 :
     Then(Set(T4, y, "left", x), LAMBDA T5 :
     [Set(T5, x, "parent", y) EXCEPT !.rot = @ + 1])))))

RightRotate(T, x) ==
  LET y == T.n[x].left
  IN Then(Set(T, x, "left", T.n[y].right), LAMBDA T1 :
     Then(IF T1.n[y].right # NIL THEN Set(T1, T1.n[y].right, "parent", x) ELSE T1,
          LAMBDA T2 :
     Then(Set(T2, y, "parent", T2.n[x].parent), LAMBDA T3 :
     Then(IF T3.n[x].parent = NIL THEN [T3 EXCEPT !.root = y]
          ELSE IF x = T3.n[T3.n[x].parent].right
               THEN Set(T3, T3.n[x].parent, "right", y)
               ELSE Set(T3, T3.n[x].parent, "left", y), LAMBDA T4 :
     Then(Set(T4, y, "right", x), LAMBDA T5 :
     [Set(T5, x, "parent", y) EXCEPT !.rot = @ + 1])))))

\* One pass of the loop of _insert_fixup when z.parent is a left child.
InsertFixupLeft(T, z) ==
  LET p == T.n[z].parent
      g == T.n[T.n[z].parent].parent
      y == T.n[T.n[T.n[z].parent].parent].right
  IN IF T.n[y].color = RED
     THEN [T |-> Set(Set(Set(T, p, "color", BLACK), y, "color", BLACK), g, "color", RED),
           z |-> g]
     ELSE LET z2 == IF z = T.n[p].right THEN p ELSE z
          IN Then(IF z = T.n[p].right THEN LeftRotate(T, z2) ELSE T, LAMBDA Ta :
             Then(Set(Ta, Ta.n[z2].parent, "color", BLACK), LAMBDA Tb :
             Then(Set(Tb, Tb.n[Tb.n[z2].parent].parent, "color", RED), LAMBDA Tc :
             [T |-> RightRotate(Tc, Tc.n[Tc.n[z2].parent].parent), z |-> z2])))

\* One pass of the loop of _insert_fixup when z.parent is a right child.
InsertFixupRight(T, z) ==
  LET p == T.n[z].parent
      g == T.n[T.n[z].parent].parent
      y == T.n[T.n[T.n[z].parent].parent].left
  IN IF T.n[y].color = RED
     THEN [T |-> Set(Set(Set(T, p, "color", BLACK), y, "color", BLACK), g, "color", RED),
           z |-> g]
     ELSE LET z2 == IF z = T.n[p].left THEN p ELSE z
          IN Then(IF z = T.n[p].left THEN RightRotate(T, z2) ELSE T, LAMBDA Ta :
             Then(Set(Ta, Ta.n[z2].parent, "color", BLACK), LAMBDA Tb :
             Then(Set(Tb, Tb.n[Tb.n[z2].parent].parent, "color", RED), LAMBDA Tc :
             [T |-> LeftRotate(Tc, Tc.n[Tc.n[z2].parent].parent), z |-> z2])))

\* The test of the while loop of _insert_fixup.
\* Mutant of InsertFixupGoesOn: the loop goes on under a BLACK parent, until
\* z is the root or a child of the root.
InsertFixupGoesOnPastBlack(T, z) == z # T.root /\ T.n[z].parent # T.root

InsertFixupGoesOn(T, z) == T.n[T.n[z].parent].color = RED

\* One pass of the loop of _insert_fixup: [T, z].
InsertFixupOnce(T, z) ==
  IF T.n[z].parent = T.n[T.n[T.n[z].parent].parent].left
  THEN InsertFixupLeft(T, z)
  ELSE InsertFixupRight(T, z)

RECURSIVE InsertFixupLoop(_, _)
InsertFixupLoop(T, z) ==
  IF InsertFixupGoesOn(T, z)
  THEN Then(InsertFixupOnce(T, z), LAMBDA s : InsertFixupLoop(s.T, s.z))
  ELSE T

\* Mutant of InsertFixup: the root is not painted BLACK after the loop.
InsertFixupRootLeft(T, z) == InsertFixupLoop(T, z)

\* _insert_fixup(z): the loop, then self.root.color = BLACK.
InsertFixup(T, z) ==
  Then(InsertFixupLoop(T, z), LAMBDA T1 : Set(T1, T1.root, "color", BLACK))

\* The descent of insert: [x, y] when it stops, x # NIL iff the key exists.
\* Mutant of InsertDescend: a key equal to the one sought is passed on the
\* right, so that no node is found to hold it.
RECURSIVE InsertDescendPastEqual(_, _, _, _)
InsertDescendPastEqual(T, key, x, y) ==
  IF x = NIL THEN [x |-> NIL, y |-> y]
  ELSE IF KeyLT(key, T.n[x].key) THEN InsertDescendPastEqual(T, key, T.n[x].left, x)
  ELSE InsertDescendPastEqual(T, key, T.n[x].right, x)

RECURSIVE InsertDescend(_, _, _, _)
InsertDescend(T, key, x, y) ==
  IF x = NIL THEN [x |-> NIL, y |-> y]
  ELSE IF KeyLT(key, T.n[x].key) THEN InsertDescend(T, key, T.n[x].left, x)
  ELSE IF KeyLT(T.n[x].key, key) THEN InsertDescend(T, key, T.n[x].right, x)
  ELSE [x |-> x, y |-> x]

\* A node identity no node of T has (a new Python object).
NewNode(T) == CHOOSE i \in 1..(Cardinality(DOMAIN T.n) + 1) : i \notin DOMAIN T.n

\* insert of a key that is not in the tree, from the end of the descent at y
\* to the call of _insert_fixup: the new RED node is linked under y; [T, z].
InsertLink(T, key, value, y) ==
  Then(NewNode(T), LAMBDA node :
  Then([T EXCEPT !.n = @ @@ (node :> RBNode(key, value, RED, NIL, NIL, y))],
       LAMBDA T1 :
  Then(IF y = NIL THEN [T1 EXCEPT !.root = node]
       ELSE IF KeyLT(key, T1.n[y].key) THEN Set(T1, y, "left", node)
       ELSE Set(T1, y, "right", node), LAMBDA T2 :
  [T |-> T2, z |-> node])))

\* insert(key, value) before the identities are normalised.
InsertRaw(T, key, value) ==
  Then(InsertDescend(T, key, T.root, NIL), LAMBDA d :
    IF d.x # NIL
    THEN Set(T, d.x, "value", value)
    ELSE Then(InsertLink(T, key, value, d.y), LAMBDA s : InsertFixup(s.T, s.z)))

\* search_node(key): the node, or NIL for Python's None.
RECURSIVE SearchNodeFrom(_, _, _)
SearchNodeFrom(T, key, x) ==
  IF x = NIL \/ key = T.n[x].key THEN x
  ELSE IF KeyLT(key, T.n[x].key) THEN SearchNodeFrom(T, key, T.n[x].left)
  ELSE SearchNodeFrom(T, key, T.n[x].right)

SearchNode(T, key) == SearchNodeFrom(T, key, T.root)

\* search(key): the value, or None.
Search(T, key) ==
  Then(SearchNode(T, key), LAMBDA x : IF x # NIL THEN T.n[x].value ELSE None)

RECURSIVE Minimum(_, _)
Minimum(T, x) == IF T.n[x].left # NIL THEN Minimum(T, T.n[x].left) ELSE x

RECURSIVE SuccessorClimb(_, _, _)
SuccessorClimb(T, x, y) ==
  IF y # NIL /\ x = T.n[y].right THEN SuccessorClimb(T, y, T.n[y].parent) ELSE y

\* Mutant of Successor: the right child is returned, not the minimum under it.
SuccessorRightChild(T, x) ==
  IF T.n[x].right # NIL THEN T.n[x].right
  ELSE SuccessorClimb(T, x, T.n[x].parent)

\* _successor(x): the node, or NIL for Python's None.
Successor(T, x) ==
  IF T.n[x].right # NIL THEN Minimum(T, T.n[x].right)
  ELSE SuccessorClimb(T, x, T.n[x].parent)

\* Mutant of Transplant: v's parent link is left as it was.
TransplantKeepsParent(T, u, v) ==
  IF T.n[u].parent = NIL THEN [T EXCEPT !.root = v]
  ELSE IF u = T.n[T.n[u].parent].left THEN Set(T, T.n[u].parent, "left", v)
  ELSE Set(T, T.n[u].parent, "right", v)

\* _transplant(u, v)
Transplant(T, u, v) ==
  Then(IF T.n[u].parent = NIL THEN [T EXCEPT !.root = v]
       ELSE IF u = T.n[T.n[u].parent].left THEN Set(T, T.n[u].parent, "left", v)
       ELSE Set(T, T.n[u].parent, "right", v),
       LAMBDA T1 : Set(T1, v, "parent", T1.n[u].parent))

\* One pass of the loop of _delete_fixup when x is a left child.
DeleteFixupLeft(T, x) ==
  LET w0 == T.n[T.n[x].parent].right
  IN Then(IF T.n[w0].color = RED
          THEN LeftRotate(Set(Set(T, w0, "color", BLACK), T.n[x].parent, "color", RED),
                          T.n[x].parent)
          ELSE T, LAMBDA T1 :
     Then(IF T.n[w0].color = RED THEN T1.n[T1.n[x].parent].right ELSE w0, LAMBDA w1 :
       IF T1.n[T1.n[w1].left].color = BLACK /\ T1.n[T1.n[w1].right].color = BLACK
       THEN [T |-> Set(T1, w1, "color", RED), x |-> T1.n[x].parent]
       ELSE Then(T1.n[T1.n[w1].right].color = BLACK, LAMBDA far :
            Then(IF far
                 THEN RightRotate(Set(Set(T1, T1.n[w1].left, "color", BLACK),
                                      w1, "color", RED), w1)
                 ELSE T1, LAMBDA T2 :
            Then(IF far THEN T2.n[T2.n[x].parent].right ELSE w1, LAMBDA w2 :
            Then(Set(T2, w2, "color", T2.n[T2.n[x].parent].color), LAMBDA T3 :
            Then(Set(T3, T3.n[x].parent, "color", BLACK), LAMBDA T4 :
            Then(Set(T4, T4.n[w2].right, "color", BLACK), LAMBDA T5 :
            Then(LeftRotate(T5, T5.n[x].parent), LAMBDA T6 :
            [T |-> T6, x |-> T6.root])))))))))

\* One pass of the loop of _delete_fixup when x is a right child.
DeleteFixupRight(T, x) ==
  LET w0 == T.n[T.n[x].parent].left
  IN Then(IF T.n[w0].color = RED
          THEN RightRotate(Set(Set(T, w0, "color", BLACK), T.n[x].parent, "color", RED),
                           T.n[x].parent)
          ELSE T, LAMBDA T1 :
     Then(IF T.n[w0].color = RED THEN T1.n[T1.n[x].parent].left ELSE w0, LAMBDA w1 :
       IF T1.n[T1.n[w1].right].color = BLACK /\ T1.n[T1.n[w1].left].color = BLACK
       THEN [T |-> Set(T1, w1, "color", RED), x |-> T1.n[x].parent]
       ELSE Then(T1.n[T1.n[w1].left].color = BLACK, LAMBDA far :
            Then(IF far
                 THEN LeftRotate(Set(Set(T1, T1.n[w1].right, "color", BLACK),
                                     w1, "color", RED), w1)
                 ELSE T1, LAMBDA T2 :
            Then(IF far THEN T2.n[T2.n[x].parent].left ELSE w1, LAMBDA w2 :
            Then(Set(T2, w2, "color", T2.n[T2.n[x].parent].color), LAMBDA T3 :
            Then(Set(T3, T3.n[x].parent, "color", BLACK), LAMBDA T4 :
            Then(Set(T4, T4.n[w2].left, "color", BLACK), LAMBDA T5 :
            Then(RightRotate(T5, T5.n[x].parent), LAMBDA T6 :
            [T |-> T6, x |-> T6.root])))))))))

\* The test of the while loop of _delete_fixup.
DeleteFixupGoesOn(T, x) == x # T.root /\ T.n[x].color = BLACK

\* Mutant of DeleteFixupOnce: the pass leaves the tree and x as they are.
DeleteFixupOnceStays(T, x) == [T |-> T, x |-> x]

\* One pass of the loop of _delete_fixup: [T, x].
DeleteFixupOnce(T, x) ==
  IF x = T.n[T.n[x].parent].left
  THEN DeleteFixupLeft(T, x)
  ELSE DeleteFixupRight(T, x)

RECURSIVE DeleteFixupLoop(_, _)
DeleteFixupLoop(T, x) ==
  IF DeleteFixupGoesOn(T, x)
  THEN Then(DeleteFixupOnce(T, x), LAMBDA s : DeleteFixupLoop(s.T, s.x))
  ELSE [T |-> T, x |-> x]

\* _delete_fixup(x): the loop, then x.color = BLACK.
DeleteFixup(T, x) ==
  Then(DeleteFixupLoop(T, x), LAMBDA s : Set(s.T, s.x, "color", BLACK))

\* delete(key), for a key that search_node found at z, up to the test of
\* y_original_color: z is unlinked; [T, x, y_original_color].  z stays in n
\* as an unlinked object.
DeleteUnlink(T, z) ==
       IF T.n[z].left = NIL
       THEN [T |-> Transplant(T, z, T.n[z].right), x |-> T.n[z].right,
             y_original_color |-> T.n[z].color]
       ELSE IF T.n[z].right = NIL
       THEN [T |-> Transplant(T, z, T.n[z].left), x |-> T.n[z].left,
             y_original_color |-> T.n[z].color]
       ELSE Then(Minimum(T, T.n[z].right), LAMBDA y :
            Then(IF T.n[y].parent = z
                 THEN Set(T, T.n[y].right, "parent", y)
                 ELSE Then(Transplant(T, y, T.n[y].right), LAMBDA Ta :
                      Then(Set(Ta, y, "right", Ta.n[z].right), LAMBDA Tb :
                      Set(Tb, Tb.n[y].right, "parent", y))), LAMBDA T1 :
            Then(Transplant(T1, z, y), LAMBDA T2 :
            Then(Set(T2, y, "left", T2.n[z].left), LAMBDA T3 :
            Then(Set(T3, T3.n[y].left, "parent", y), LAMBDA T4 :
            [T |-> Set(T4, y, "color", T4.n[z].color), x |-> T.n[y].right,
             y_original_color |-> T.n[y].color])))))

\* delete(key), for a key that search_node found at z, before the
\* identities are normalised.
DeleteNode(T, z) ==
  Then(DeleteUnlink(T, z),
       LAMBDA s : IF s.y_original_color = BLACK THEN DeleteFixup(s.T, s.x) ELSE s.T)

DeleteRaw(T, key) ==
  Then(SearchNode(T, key), LAMBDA z : IF z = NIL THEN T ELSE DeleteNode(T, z))

\* inorder(): the (key, value) pairs the generator yields from node x.
RECURSIVE InorderFrom(_, _)
InorderFrom(T, x) ==
  IF x = NIL THEN <<>>
  ELSE InorderFrom(T, T.n[x].left) \o <<<<T.n[x].key, T.n[x].value>>>>
       \o InorderFrom(T, T.n[x].right)

Inorder(T) == InorderFrom(T, T.root)

\* Mutant of LowerBoundFrom: a node is kept only when its key is greater than
\* the one asked for.
RECURSIVE LowerBoundFromStrict(_, _, _, _)
LowerBoundFromStrict(T, key, x, lb) ==
  IF x = NIL THEN lb
  ELSE IF KeyLT(key, T.n[x].key) THEN LowerBoundFromStrict(T, key, T.n[x].left, x)
  ELSE LowerBoundFromStrict(T, key, T.n[x].right, lb)

\* lower_bound_node(key): the node, or NIL for Python's None.
RECURSIVE LowerBoundFrom(_, _, _, _)
LowerBoundFrom(T, key, x, lb) ==
  IF x = NIL THEN lb
  ELSE IF KeyGE(T.n[x].key, key) THEN LowerBoundFrom(T, key, T.n[x].left, x)
  ELSE LowerBoundFrom(T, key, T.n[x].right, lb)

LowerBoundNode(T, key) == LowerBoundFrom(T, key, T.root, NIL)

\* size()
Size(T) == Len(Inorder(T))

(* ----------------------- node identities ------------------------------- *)

\* The nodes linked under x, parents before children, left before right.
RECURSIVE Preorder(_, _)
Preorder(T, x) ==
  IF x = NIL THEN <<>>
  ELSE <<x>> \o Preorder(T, T.n[x].left) \o Preorder(T, T.n[x].right)

\* Object identity carries no information beyond equality, and no node
\* reference outlives the call that obtained it: the nodes linked into the
\* tree are renamed 1..k in preorder, and the objects that are no longer
\* linked are dropped (a reference to one is shown as Detached).
Canon(T) ==
  Then(Preorder(T, T.root), LAMBDA ord :
    LET Rank(p) == IF p = NIL THEN NIL
                   ELSE IF \E i \in 1..Len(ord) : ord[i] = p
                        THEN CHOOSE i \in 1..Len(ord) : ord[i] = p
                        ELSE Detached
        Ren(nd) == [nd EXCEPT !.left = Rank(@), !.right = Rank(@), !.parent = Rank(@)]
    IN [root |-> Rank(T.root),
        n |-> [i \in 0..Len(ord) |-> IF i = 0 THEN Ren(T.n[NIL]) ELSE Ren(T.n[ord[i]])],
        rot |-> T.rot])

\* RBTree.insert(key, value)
Insert(T, key, value) == Canon(InsertRaw([T EXCEPT !.rot = 0], key, value))

\* RBTree.delete(key): the tree afterwards.
Delete(T, key) == Canon(DeleteRaw([T EXCEPT !.rot = 0], key))

\* Mutant of DeleteResult: True whenever the tree holds a key.
DeleteResultNonEmpty(T, key) == T.root # NIL

\* RBTree.delete(key): the value returned.
DeleteResult(T, key) == SearchNode(T, key) # NIL

\* The tree as it is held between calls.
Held(T) == [T EXCEPT !.rot = 0]

(* ------------------------------- Book ---------------------------------- *)

\* "Ab" and "aa" as text: as written "Ab" < "aa", lower-cased "aa" < "ab".
Titles == {<<65, 98>>, <<97, 97>>}

\* The texts a search is asked for: "", "a", "aa", "AB", "b".
Queries == {<<>>, <<97>>, <<97, 97>>, <<65, 66>>, <<98>>}


\* Identifiers: 1..MaxId and the least integer of the word.
BookIds == (1..MaxId) \cup {IntMin}

\* Book(book_id, title, author, year, copies)
Book(book_id, title, author, year, copies) ==
  [book_id |-> book_id, title |-> title, author |-> author, year |-> year,
   copies |-> copies]

\* The Book objects a caller passes to add_book: every identifier with every
\* title, and one more that differs from another in its author alone.  The
\* dataclass does not check that title is a str.
Books ==
  {Book(i, t, "Cormen", 2009, 1) : i \in BookIds, t \in Titles \cup {NotText}}
  \cup {Book(1, <<65, 98>>, "Gamma", 2009, 1)}

\* The JSON objects of a bulk load; the last one has no "title".
Dicts ==
  {[book_id |-> 1, title |-> <<65, 98>>, author |-> "Cormen", year |-> 2009, copies |-> 1],
   [book_id |-> 1, title |-> <<97, 97>>, author |-> "Cormen", year |-> 2009, copies |-> 1],
   [book_id |-> MaxId, title |-> NotText, author |-> "Cormen", year |-> 2009, copies |-> 1],
   [book_id |-> MaxId, author |-> "Cormen", year |-> 2009, copies |-> 1]}

RECURSIVE SeqsUpTo(_, _)
SeqsUpTo(S, k) ==
  IF k = 0 THEN {<<>>}
  ELSE LET R == SeqsUpTo(S, k - 1)
       IN R \cup {Append(q, e) : q \in {r \in R : Len(r) = k - 1}, e \in S}

Batches == SeqsUpTo(Dicts, MaxBatch)

\* Book.from_dict(d): d["title"] raises KeyError when the key is missing.
FromDictRaises(d) == "title" \notin DOMAIN d

FromDict(d) == Book(d.book_id, d.title, d.author, d.year, d.copies)

\* A record of a batch with every field, its title a text.
WellFormed(d) == "title" \in DOMAIN d /\ IsStr(d.title)

(* --------------------------- LibraryCatalog ---------------------------- *)

\* A catalog is the pair of its trees.
Catalog(id_tree, title_tree) == [by_id |-> id_tree, by_title |-> title_tree]

\* Mutant of TitleKey: the title is not lower-cased.
TitleKeyAsWritten(book) == <<book.title, book.book_id>>

\* (book.title.lower(), book.book_id)
TitleKey(book) == <<StrLower(book.title), book.book_id>>

\* The keys _remove_title_nodes_for_id collects.
ToDelete(T, book_id) ==
  Then(Inorder(T), LAMBDA kv :
    SelectSeq([i \in 1..Len(kv) |-> kv[i][1]], LAMBDA k : k[2] = book_id))

RECURSIVE DeleteAll(_, _)
DeleteAll(T, ks) == IF ks = <<>> THEN T ELSE DeleteAll(Held(Delete(T, Head(ks))), Tail(ks))

\* _remove_title_nodes_for_id(book_id)
RemoveTitleNodesForId(T, book_id) == DeleteAll(T, ToDelete(T, book_id))

\* Mutant of AddBookTo: the update removes the old by_title entry and does not
\* insert the new one.
AddBookToNoReinsert(c, book) ==
  Then(SearchNode(c.by_id, IntKey(book.book_id)), LAMBDA existing :
    IF existing # NIL
    THEN Then(Set(c.by_id, existing, "value", book), LAMBDA id1 :
         Then(RemoveTitleNodesForId(c.by_title, book.book_id), LAMBDA tt1 :
           IF ~IsStr(book.title)
           THEN [cat |-> Catalog(id1, tt1), ret |-> "AttributeError"]
           ELSE [cat |-> Catalog(id1, tt1),
                 ret |-> "updated"]))
    ELSE Then(Held(Insert(c.by_id, IntKey(book.book_id), book)), LAMBDA id1 :
           IF ~IsStr(book.title)
           THEN [cat |-> Catalog(id1, c.by_title), ret |-> "AttributeError"]
           ELSE [cat |-> Catalog(id1, Held(Insert(c.by_title, TitleKey(book), book))),
                 ret |-> "inserted"]))

\* Mutant of AddBookTo: the update writes the record to by_id and leaves
\* by_title as it is.
AddBookToIdOnly(c, book) ==
  Then(SearchNode(c.by_id, IntKey(book.book_id)), LAMBDA existing :
    IF existing # NIL
    THEN [cat |-> Catalog(Set(c.by_id, existing, "value", book), c.by_title),
          ret |-> IF IsStr(book.title) THEN "updated" ELSE "AttributeError"]
    ELSE Then(Held(Insert(c.by_id, IntKey(book.book_id), book)), LAMBDA id1 :
           IF ~IsStr(book.title)
           THEN [cat |-> Catalog(id1, c.by_title), ret |-> "AttributeError"]
           ELSE [cat |-> Catalog(id1, Held(Insert(c.by_title, TitleKey(book), book))),
                 ret |-> "inserted"]))

\* add_book(book): [cat, ret]; ret "AttributeError" when book.title.lower()
\* raises, with what was written before the raise kept.
AddBookTo(c, book) ==
  Then(SearchNode(c.by_id, IntKey(book.book_id)), LAMBDA existing :
    IF existing # NIL
    THEN Then(Set(c.by_id, existing, "value", book), LAMBDA id1 :
         Then(RemoveTitleNodesForId(c.by_title, book.book_id), LAMBDA tt1 :
           IF ~IsStr(book.title)
           THEN [cat |-> Catalog(id1, tt1), ret |-> "AttributeError"]
           ELSE [cat |-> Catalog(id1, Held(Insert(tt1, TitleKey(book), book))),
                 ret |-> "updated"]))
    ELSE Then(Held(Insert(c.by_id, IntKey(book.book_id), book)), LAMBDA id1 :
           IF ~IsStr(book.title)
           THEN [cat |-> Catalog(id1, c.by_title), ret |-> "AttributeError"]
           ELSE [cat |-> Catalog(id1, Held(Insert(c.by_title, TitleKey(book), book))),
                 ret |-> "inserted"]))

\* Mutant of DeleteByIdFrom: an absent identifier is answered True.
DeleteByIdFromAlwaysTrue(c, book_id) ==
  Then(SearchNode(c.by_id, IntKey(book_id)), LAMBDA book_node :
    IF book_node = NIL
    THEN [cat |-> c, ret |-> "True"]
    ELSE Then(c.by_id.n[book_node].value, LAMBDA book :
         Then(Held(Delete(c.by_id, IntKey(book_id))), LAMBDA id1 :
           IF ~IsStr(book.title)
           THEN [cat |-> Catalog(id1, c.by_title), ret |-> "AttributeError"]
           ELSE [cat |-> Catalog(id1, Held(Delete(c.by_title, TitleKey(book)))),
                 ret |-> "True"])))

\* delete_by_id(book_id): [cat, ret]
DeleteByIdFrom(c, book_id) ==
  Then(SearchNode(c.by_id, IntKey(book_id)), LAMBDA book_node :
    IF book_node = NIL
    THEN [cat |-> c, ret |-> "False"]
    ELSE Then(c.by_id.n[book_node].value, LAMBDA book :
         Then(Held(Delete(c.by_id, IntKey(book_id))), LAMBDA id1 :
           IF ~IsStr(book.title)
           THEN [cat |-> Catalog(id1, c.by_title), ret |-> "AttributeError"]
           ELSE [cat |-> Catalog(id1, Held(Delete(c.by_title, TitleKey(book)))),
                 ret |-> "True"])))

\* search_by_id(book_id)
SearchById(c, book_id) == Search(c.by_id, IntKey(book_id))

\* -sys.maxsize, the identifier of the anchor of the title searches.
AnchorId == -sys_maxsize

\* The loop of search_by_title_exact from node.
RECURSIVE ExactWalk(_, _, _)
ExactWalk(T, node, tkey) ==
  IF node = NIL THEN <<>>
  ELSE IF T.n[node].key[1] = tkey
       THEN <<T.n[node].value>> \o ExactWalk(T, Successor(T, node), tkey)
       ELSE <<>>

\* search_by_title_exact(title)
SearchByTitleExact(c, title) ==
  Then(StrLower(title), LAMBDA tkey :
    ExactWalk(c.by_title, LowerBoundNode(c.by_title, <<tkey, AnchorId>>), tkey))

\* The loop of search_by_title_prefix from node.
RECURSIVE PrefixWalk(_, _, _)
PrefixWalk(T, node, p) ==
  IF node = NIL THEN <<>>
  ELSE IF StartsWith(T.n[node].key[1], p)
       THEN <<T.n[node].value>> \o PrefixWalk(T, Successor(T, node), p)
       ELSE <<>>

\* search_by_title_prefix(prefix)
SearchByTitlePrefix(c, prefix) ==
  Then(StrLower(prefix), LAMBDA p :
    PrefixWalk(c.by_title, LowerBoundNode(c.by_title, <<p, AnchorId>>), p))

\* [v for _, v in tree.inorder()]
ValuesOf(T) == Then(Inorder(T), LAMBDA kv : [i \in 1..Len(kv) |-> kv[i][2]])

ListAllById(c) == ValuesOf(c.by_id)

ListAllByTitle(c) == ValuesOf(c.by_title)

\* The loop of load_from_file over the rest of arr: [cat, ret].
RECURSIVE LoadLoop(_, _)
LoadLoop(c, arr) ==
  IF arr = <<>> THEN [cat |-> c, ret |-> "True"]
  ELSE IF FromDictRaises(Head(arr)) THEN [cat |-> c, ret |-> "KeyError"]
  ELSE Then(AddBookTo(c, FromDict(Head(arr))), LAMBDA r :
         IF r.ret = "AttributeError" THEN r ELSE LoadLoop(r.cat, Tail(arr)))

\* Mutant of LoadFrom: the trees are not replaced before the records are added.
LoadFromKeepsContent(arr) == LoadLoop([by_id |-> by_id, by_title |-> by_title], arr)

\* load_from_file(filename), arr being what json.load returned: both trees
\* are replaced by new ones, then every record is added.
LoadFrom(arr) == LoadLoop(Catalog(EmptyTree, EmptyTree), arr)

(* ------------------------------ actions -------------------------------- *)

\* The catalog as the program holds it now.
Cat == Catalog(by_id, by_title)

\* The call that was made last: its name, argument and result ("True",
\* "False", the status string, or the name of the exception it raised), and,
\* for an add_book that repeats the call before it, that call's result; for a
\* load_from_file, "stored" when the catalog held a record as it was called.
LastCall == last

\* No insert or delete is running on the stand-alone tree.
NoCall == [pc |-> "idle", x |-> NIL, passes |-> 0]

\* The threads of the server; one that handles no request.
Threads == 1..MaxThreads

Idle == [op |-> "idle", pc |-> "idle", book |-> None, rest |-> <<>>]

\* LibraryCatalog(): two empty trees.  RBTree(): an empty tree.  No request
\* is being handled.
Init ==
  /\ by_id = EmptyTree
  /\ by_title = EmptyTree
  /\ last = [op |-> "init", arg |-> None, ret |-> None, before |-> None]
  /\ tree = EmptyTree
  /\ tlast = [op |-> "init", key |-> 0, value |-> None, ret |-> None, rot |-> 0]
  /\ ref = [k \in {} |-> None]
  /\ req = [t \in Threads |-> Idle]
  /\ call = NoCall
  /\ seen = [by_id_count |-> 0, by_title_count |-> 0]

add_book(book) ==
  \E r \in {AddBookTo(Cat, book)} :
     /\ by_id' = r.cat.by_id
     /\ by_title' = r.cat.by_title
     /\ last' = [op |-> "add_book", arg |-> book, ret |-> r.ret,
                 before |-> IF last.op = "add_book" /\ last.arg = book
                            THEN last.ret ELSE None]
     /\ UNCHANGED <<treeVars, srvVars>>

delete_by_id(book_id) ==
  \E r \in {DeleteByIdFrom(Cat, book_id)} :
     /\ by_id' = r.cat.by_id
     /\ by_title' = r.cat.by_title
     /\ last' = [op |-> "delete_by_id", arg |-> book_id, ret |-> r.ret, before |-> None]
     /\ UNCHANGED <<treeVars, srvVars>>

\* app.clear_catalog(): both trees are replaced by new ones.
clear_catalog ==
  /\ by_id' = EmptyTree
  /\ by_title' = EmptyTree
  /\ last' = [op |-> "clear", arg |-> None, ret |-> None, before |-> None]
  /\ UNCHANGED <<treeVars, srvVars>>

load_from_file(arr) ==
  \E r \in {LoadFrom(arr)} :
     /\ by_id' = r.cat.by_id
     /\ by_title' = r.cat.by_title
     /\ last' = [op |-> "load_from_file", arg |-> arr, ret |-> r.ret,
                 before |-> IF Size(by_id) + Size(by_title) > 0 THEN "stored" ELSE None]
     /\ UNCHANGED <<treeVars, srvVars>>

AddBookStep == \E book \in Books : add_book(book)

DeleteByIdStep == \E book_id \in BookIds : delete_by_id(book_id)

LoadStep == \E arr \in Batches : load_from_file(arr)

Next == AddBookStep \/ DeleteByIdStep \/ clear_catalog \/ LoadStep

Spec == Init /\ [][Next]_vars

(* ------------------------ the tree on its own -------------------------- *)

TreeKeys == 1..MaxKey

TreeValues == {"v1", "v2"}

\* The finite map m with k put to v, and with k removed.
RefPut(m, k, v) == [x \in DOMAIN m \cup {k} |-> IF x = k THEN v ELSE m[x]]

RefRemove(m, k) == [x \in DOMAIN m \ {k} |-> m[x]]

\* tree.insert(key, value); the node returned is the one that holds key.
insert(key, value) ==
  \E T \in {Insert(tree, IntKey(key), value)} :
     /\ tree' = Held(T)
     /\ tlast' = [op |-> "insert", key |-> key, value |-> value,
                  ret |-> IF SearchNode(tree, IntKey(key)) # NIL THEN "existing" ELSE "new",
                  rot |-> T.rot]
     /\ ref' = RefPut(ref, key, value)
     /\ UNCHANGED <<call, catVars, srvVars>>

\* tree.delete(key)
delete(key) ==
  \E T \in {Delete(tree, IntKey(key))} :
     /\ tree' = Held(T)
     /\ tlast' = [op |-> "delete", key |-> key, value |-> None,
                  ret |-> IF DeleteResult(tree, IntKey(key)) THEN "True" ELSE "False",
                  rot |-> T.rot]
     /\ ref' = RefRemove(ref, key)
     /\ UNCHANGED <<call, catVars, srvVars>>

InsertStep == \E key \in TreeKeys, value \in TreeValues : insert(key, value)

DeleteStep == \E key \in TreeKeys : delete(key)

NextTree == InsertStep \/ DeleteStep

SpecTree == Init /\ [][NextTree]_vars

(* ------------------- the tree, one loop pass a step -------------------- *)

\* insert and delete on the stand-alone tree with the loops of _insert_fixup
\* and _delete_fixup taken one pass at a time: call.pc says which loop is
\* running, call.x is its z or x, and call.passes counts the passes made, up
\* to two.  The thread that made the call keeps running it.

Passed(c) == IF c.passes < 2 THEN c.passes + 1 ELSE 2

\* tree.insert(key, value) to the call of _insert_fixup; for a key that is
\* in the tree, all of it.
CallInsert(key, value) ==
  /\ call.pc = "idle"
  /\ \E d \in {InsertDescend(tree, IntKey(key), tree.root, NIL)} :
       IF d.x # NIL
       THEN /\ tree' = Set(tree, d.x, "value", value)
            /\ UNCHANGED call
       ELSE \E s \in {InsertLink(tree, IntKey(key), value, d.y)} :
              /\ tree' = s.T
              /\ call' = [pc |-> "insert_fixup", x |-> s.z, passes |-> 0]
  /\ UNCHANGED <<tlast, ref, catVars, srvVars>>

\* while z.parent.color == RED: one pass.
InsertFixupPass ==
  /\ call.pc = "insert_fixup"
  /\ InsertFixupGoesOn(tree, call.x)
  /\ \E s \in {InsertFixupOnce(tree, call.x)} :
       /\ tree' = s.T
       /\ call' = [call EXCEPT !.x = s.z, !.passes = Passed(call)]
  /\ UNCHANGED <<tlast, ref, catVars, srvVars>>

\* The loop of _insert_fixup is left: self.root.color = BLACK; return node.
InsertReturn ==
  /\ call.pc = "insert_fixup"
  /\ ~InsertFixupGoesOn(tree, call.x)
  /\ tree' = Held(Canon(Set(tree, tree.root, "color", BLACK)))
  /\ call' = NoCall
  /\ UNCHANGED <<tlast, ref, catVars, srvVars>>

\* tree.delete(key) to the call of _delete_fixup; all of it when the key is
\* not in the tree or y_original_color is RED.
CallDelete(key) ==
  /\ call.pc = "idle"
  /\ \E z \in {SearchNode(tree, IntKey(key))} :
       IF z = NIL
       THEN UNCHANGED <<tree, call>>
       ELSE \E s \in {DeleteUnlink([tree EXCEPT !.rot = 0], z)} :
              IF s.y_original_color = BLACK
              THEN /\ tree' = s.T
                   /\ call' = [pc |-> "delete_fixup", x |-> s.x, passes |-> 0]
              ELSE /\ tree' = Held(Canon(s.T))
                   /\ UNCHANGED call
  /\ UNCHANGED <<tlast, ref, catVars, srvVars>>

\* while x != self.root and x.color == BLACK: one pass.
DeleteFixupPass ==
  /\ call.pc = "delete_fixup"
  /\ DeleteFixupGoesOn(tree, call.x)
  /\ \E s \in {DeleteFixupOnce(tree, call.x)} :
       /\ tree' = s.T
       /\ call' = [call EXCEPT !.x = s.x, !.passes = Passed(call)]
  /\ UNCHANGED <<tlast, ref, catVars, srvVars>>

\* The loop of _delete_fixup is left: x.color = BLACK; return True.
DeleteReturn ==
  /\ call.pc = "delete_fixup"
  /\ ~DeleteFixupGoesOn(tree, call.x)
  /\ tree' = Held(Canon(Set(tree, call.x, "color", BLACK)))
  /\ call' = NoCall
  /\ UNCHANGED <<tlast, ref, catVars, srvVars>>

CallInsertStep == \E key \in TreeKeys, value \in TreeValues : CallInsert(key, value)

CallDeleteStep == \E key \in TreeKeys : CallDelete(key)

\* The steps of a call that is running.
Running == InsertFixupPass \/ InsertReturn \/ DeleteFixupPass \/ DeleteReturn

NextPasses ==
  \/ CallInsertStep \/ CallDeleteStep
  \/ InsertFixupPass \/ InsertReturn \/ DeleteFixupPass \/ DeleteReturn

SpecPasses == Init /\ [][NextPasses]_vars /\ WF_vars(Running)

(* --------------------- the server and its threads ---------------------- *)

\* app.py keeps one catalog for every request and takes no lock; app.run
\* serves each request on a thread of its own.  A handler is modelled as the
\* sequence of its writes to the catalog: one step per tree that is written,
\* a step being the statements from one write up to the next.  The threads
\* interleave between steps.  (They also interleave inside a step; those
\* interleavings are left out.)  The seed records of demo_seed are left out:
\* /clear reaches the empty catalog the model starts from.

\* The records the /add form is given: the title is always a text.  Every
\* identifier has one title, and the first a second one.
ServerBooks ==
  {Book(i, <<65, 98>>, "Cormen", 2009, 1) : i \in 1..MaxId}
  \cup {Book(1, <<97, 97>>, "Cormen", 2009, 1)}

\* The uploads /import is given: well-formed records, no identifier twice.
ServerBatches ==
  {arr \in Batches :
     /\ \A i \in 1..Len(arr) : WellFormed(arr[i])
     /\ \A i, j \in 1..Len(arr) : i # j => arr[i].book_id # arr[j].book_id}

\* add_book(book) up to its write of by_id: existing.value = book, or
\* by_id.insert(book.book_id, book); [by_id, existing].
WriteId(T, book) ==
  Then(SearchNode(T, IntKey(book.book_id)), LAMBDA existing :
    [by_id |-> IF existing # NIL THEN Set(T, existing, "value", book)
               ELSE Held(Insert(T, IntKey(book.book_id), book)),
     existing |-> existing # NIL])

\* The request after add_book's write of by_id.
AfterWriteId(op, book, existing, rest) ==
  [op |-> op, pc |-> IF existing THEN "remove_title" ELSE "insert_title",
   book |-> book, rest |-> rest]

\* POST /add: catalog.add_book(book), to its write of by_id.
AddBookWriteId(t, book) ==
  /\ req[t].op = "idle"
  /\ \E w \in {WriteId(by_id, book)} :
       /\ by_id' = w.by_id
       /\ req' = [req EXCEPT ![t] = AfterWriteId("add_book", book, w.existing, <<>>)]
  /\ UNCHANGED <<by_title, last, seen, treeVars>>

\* add_book, update path: self._remove_title_nodes_for_id(book.book_id).
AddBookRemoveTitle(t) ==
  /\ req[t].pc = "remove_title"
  /\ by_title' = RemoveTitleNodesForId(by_title, req[t].book.book_id)
  /\ req' = [req EXCEPT ![t].pc = "insert_title"]
  /\ UNCHANGED <<by_id, last, seen, treeVars>>

\* add_book: self.by_title.insert(key, book), and the return to the handler;
\* /import goes on to its next record.
AddBookInsertTitle(t) ==
  /\ req[t].pc = "insert_title"
  /\ by_title' = Held(Insert(by_title, TitleKey(req[t].book), req[t].book))
  /\ req' = [req EXCEPT ![t] = IF req[t].rest = <<>> THEN Idle
                               ELSE [req[t] EXCEPT !.pc = "next_record", !.book = None]]
  /\ UNCHANGED <<by_id, last, seen, treeVars>>

\* POST /delete: catalog.delete_by_id(bid), to self.by_id.delete(book_id); an
\* absent identifier ends the request.
DeleteWriteId(t, book_id) ==
  /\ req[t].op = "idle"
  /\ \E book_node \in {SearchNode(by_id, IntKey(book_id))} :
       IF book_node = NIL
       THEN UNCHANGED <<by_id, req>>
       ELSE /\ by_id' = Held(Delete(by_id, IntKey(book_id)))
            /\ req' = [req EXCEPT ![t] = [op |-> "delete", pc |-> "delete_title",
                                          book |-> by_id.n[book_node].value,
                                          rest |-> <<>>]]
  /\ UNCHANGED <<by_title, last, seen, treeVars>>

\* delete_by_id: self.by_title.delete(title_key).
DeleteWriteTitle(t) ==
  /\ req[t].pc = "delete_title"
  /\ by_title' = Held(Delete(by_title, TitleKey(req[t].book)))
  /\ req' = [req EXCEPT ![t] = Idle]
  /\ UNCHANGED <<by_id, last, seen, treeVars>>

\* POST /clear: catalog.by_id = catalog.by_id.__class__()
ClearResetId(t) ==
  /\ req[t].op = "idle"
  /\ by_id' = EmptyTree
  /\ req' = [req EXCEPT ![t] = [op |-> "clear", pc |-> "reset_title",
                                book |-> None, rest |-> <<>>]]
  /\ UNCHANGED <<by_title, last, seen, treeVars>>

\* POST /import: data = json.load(f); catalog.by_id = catalog.by_id.__class__()
ImportResetId(t, arr) ==
  /\ req[t].op = "idle"
  /\ by_id' = EmptyTree
  /\ req' = [req EXCEPT ![t] = [op |-> "import", pc |-> "reset_title",
                                book |-> None, rest |-> arr]]
  /\ UNCHANGED <<by_title, last, seen, treeVars>>

\* /clear and /import: catalog.by_title = catalog.by_title.__class__()
ResetTitle(t) ==
  /\ req[t].pc = "reset_title"
  /\ by_title' = EmptyTree
  /\ req' = [req EXCEPT ![t] = IF req[t].rest = <<>> THEN Idle
                               ELSE [req[t] EXCEPT !.pc = "next_record"]]
  /\ UNCHANGED <<by_id, last, seen, treeVars>>

\* /import: book = Book.from_dict(d); catalog.add_book(book), to its write
\* of by_id.
ImportNextRecord(t) ==
  /\ req[t].pc = "next_record"
  /\ \E w \in {WriteId(by_id, FromDict(Head(req[t].rest)))} :
       /\ by_id' = w.by_id
       /\ req' = [req EXCEPT ![t] = AfterWriteId("import", FromDict(Head(req[t].rest)),
                                                 w.existing, Tail(req[t].rest))]
  /\ UNCHANGED <<by_title, last, seen, treeVars>>

\* GET /: the two counts of the home page.
index(t) ==
  /\ req[t].op = "idle"
  /\ seen' = [by_id_count |-> Size(by_id), by_title_count |-> Size(by_title)]
  /\ UNCHANGED <<catVars, req, treeVars>>

AddRequest == \E t \in Threads, book \in ServerBooks : AddBookWriteId(t, book)

AddRemoveTitleStep == \E t \in Threads : AddBookRemoveTitle(t)

AddInsertTitleStep == \E t \in Threads : AddBookInsertTitle(t)

DeleteRequest == \E t \in Threads, book_id \in 1..MaxId : DeleteWriteId(t, book_id)

DeleteTitleStep == \E t \in Threads : DeleteWriteTitle(t)

ClearRequest == \E t \in Threads : ClearResetId(t)

ImportRequest == \E t \in Threads, arr \in ServerBatches : ImportResetId(t, arr)

ResetTitleStep == \E t \in Threads : ResetTitle(t)

ImportRecordStep == \E t \in Threads : ImportNextRecord(t)

IndexRequest == \E t \in Threads : index(t)

NextServer ==
  \/ AddRequest \/ AddRemoveTitleStep \/ AddInsertTitleStep
  \/ DeleteRequest \/ DeleteTitleStep
  \/ ClearRequest \/ ImportRequest \/ ResetTitleStep \/ ImportRecordStep
  \/ IndexRequest

SpecServer == Init /\ [][NextServer]_vars

(* ------------------------------ observers ------------------------------ *)

\* The identifiers that are keys of by_id.
IdKeys(c) == LET kv == Inorder(c.by_id) IN {kv[i][1][1] : i \in 1..Len(kv)}

\* The keys of by_title.
TitleKeys(c) == LET kv == Inorder(c.by_title) IN {kv[i][1] : i \in 1..Len(kv)}

\* The record by_id holds for an identifier that is one of its keys.
StoredBook(c, book_id) == Search(c.by_id, IntKey(book_id))

\* The cross-index invariant of the catalog c.
CrossIndex(c) ==
  /\ IdKeys(c) = {k[2] : k \in TitleKeys(c)}
  /\ \A k \in TitleKeys(c) :
       /\ k[2] \in IdKeys(c)
       /\ IsStr(StoredBook(c, k[2]).title)
       /\ k[1] = StrLower(StoredBook(c, k[2]).title)

\* Black nodes on every path from x down to the sentinel, x included; -1 when
\* two paths differ.
RECURSIVE BlackHeight(_, _)
BlackHeight(T, x) ==
  IF x = NIL THEN 0
  ELSE LET l == BlackHeight(T, T.n[x].left)
           r == BlackHeight(T, T.n[x].right)
       IN IF l = -1 \/ r = -1 \/ l # r THEN -1
          ELSE l + (IF T.n[x].color = BLACK THEN 1 ELSE 0)

\* The nodes linked into the tree.
Linked(T) == LET ord == Preorder(T, T.root) IN {ord[i] : i \in 1..Len(ord)}

NoRedRed(T) ==
  \A x \in Linked(T) :
    T.n[x].color = RED =>
      T.n[T.n[x].left].color = BLACK /\ T.n[T.n[x].right].color = BLACK

RedBlack(T) ==
  /\ T.n[T.root].color = BLACK
  /\ NoRedRed(T)
  /\ BlackHeight(T, T.root) # -1

\* The catalog after the step.
CatNext == Catalog(by_id', by_title')

\* The identifiers in the keys of by_title.
TitleIds(c) == {k[2] : k \in TitleKeys(c)}

\* search_by_id(book_id) as a list: empty for None.
FoundById(c, book_id) ==
  IF book_id \in IdKeys(c) THEN <<StoredBook(c, book_id)>> ELSE <<>>

\* Everything a caller can read from the catalog c.
Observable(c) ==
  [list_all_by_id |-> ListAllById(c),
   list_all_by_title |-> ListAllByTitle(c),
   search_by_id |-> [i \in BookIds |-> FoundById(c, i)],
   search_by_title_exact |-> [q \in Queries |-> SearchByTitleExact(c, q)],
   search_by_title_prefix |-> [q \in Queries |-> SearchByTitlePrefix(c, q)]]

\* The records of list L without those whose identifier is book_id.
Without(L, book_id) == SelectSeq(L, LAMBDA b : b.book_id # book_id)

\* The stored records with a text title, as a set.
TextBooks(c) ==
  LET I == ListAllById(c) IN {I[i] : i \in {j \in 1..Len(I) : IsStr(I[j].title)}}

\* a before b by (lower-cased title, identifier).
TitleOrder(a, b) == KeyLT(<<StrLower(a.title), a.book_id>>, <<StrLower(b.title), b.book_id>>)

\* The records of the set S in (lower-cased title, identifier) order.
RECURSIVE ByTitleOrder(_)
ByTitleOrder(S) ==
  IF S = {} THEN <<>>
  ELSE LET m == CHOOSE a \in S : \A b \in S \ {a} : TitleOrder(a, b)
       IN <<m>> \o ByTitleOrder(S \ {m})

\* The stored records whose lower-cased title is the lower-cased q, by
\* ascending identifier.
ExpectedExact(c, q) ==
  SelectSeq(ListAllById(c), LAMBDA b : IsStr(b.title) /\ StrLower(b.title) = StrLower(q))

\* The stored records whose lower-cased title starts with the lower-cased q,
\* in (lower-cased title, identifier) order.
ExpectedPrefix(c, q) ==
  ByTitleOrder({b \in TextBooks(c) : StartsWith(StrLower(b.title), StrLower(q))})

\* The place in a batch of the record whose title is not text, no record
\* before it being malformed.
BadIndex(arr) ==
  CHOOSE i \in 1..Len(arr) :
    /\ "title" \in DOMAIN arr[i] /\ ~IsStr(arr[i].title)
    /\ \A j \in 1..(i - 1) : "title" \in DOMAIN arr[j] /\ IsStr(arr[j].title)

(* ------------------------------- claims -------------------------------- *)

\* C1: in every reachable state the identifiers that are keys of by_id are
\* the identifiers in the keys of by_title, and the text of each by_title key
\* is the lower-cased title of the record by_id holds for its identifier.
C1_CrossIndexConsistency == CrossIndex(Cat)

\* C2: after every insert and delete of the tree the root is BLACK, no RED
\* node has a RED child, and every path from the root to the sentinel passes
\* the same number of BLACK nodes.
C2_RedBlackBalance == RedBlack(tree)

\* C2 witness: a delete that removed a key and rotated while rebalancing left
\* a tree of at least four keys.
C2_Witness ==
  /\ tlast.op = "delete" /\ tlast.ret = "True" /\ tlast.rot >= 1
  /\ Size(tree) >= 4

\* C3: list_all_by_id() has strictly ascending identifiers, and
\* list_all_by_title() is ordered by lower-cased title, then by identifier.
C3_OrderedEnumeration ==
  LET I == ListAllById(Cat)
      L == ListAllByTitle(Cat)
  IN /\ \A i, j \in 1..Len(I) : i < j => I[i].book_id < I[j].book_id
     /\ \A i, j \in 1..Len(L) :
          i < j =>
            \/ StrLT(StrLower(L[i].title), StrLower(L[j].title))
            \/ /\ StrLower(L[i].title) = StrLower(L[j].title)
               /\ L[i].book_id < L[j].book_id

\* C3 witness: three records are listed, two of them with titles that are
\* equal once lower-cased, and the title order is not the identifier order.
C3_Witness ==
  LET L == ListAllByTitle(Cat)
  IN /\ Len(L) = 3
     /\ L # ListAllById(Cat)
     /\ \E i \in 1..2 : StrLower(L[i].title) = StrLower(L[i + 1].title)
     /\ \E i, j \in 1..3 : L[i].title # L[j].title

\* C4: an add_book of a record whose identifier is present and whose title
\* differs from the stored one reports "updated"; afterwards by_title has one
\* entry for the identifier, under the new lower-cased title, search_by_id
\* returns the new record, search_by_title_exact of the old title does not
\* return the identifier and search_by_title_exact of the new title does.
C4_RekeyOnUpdate ==
  [][LET book == last'.arg
         old  == StoredBook(Cat, book.book_id)
     IN (/\ last'.op = "add_book"
         /\ add_book(book)
         /\ IsStr(book.title)
         /\ book.book_id \in IdKeys(Cat)
         /\ old.title # book.title)
        => /\ last'.ret = "updated"
           /\ {k \in TitleKeys(CatNext) : k[2] = book.book_id} = {TitleKey(book)}
           /\ FoundById(CatNext, book.book_id) = <<book>>
           /\ IsStr(old.title) =>
                Without(SearchByTitleExact(CatNext, old.title), book.book_id)
                  = SearchByTitleExact(CatNext, old.title)
           /\ \E i \in 1..Len(SearchByTitleExact(CatNext, book.title)) :
                SearchByTitleExact(CatNext, book.title)[i] = book]_vars

\* C5: add_book of a well-formed record whose identifier is absent returns
\* "inserted"; the same call made again returns "updated" and leaves
\* everything a caller can read as the first call left it.
C5_UpsertIdempotence ==
  [][/\ (/\ last'.op = "add_book"
         /\ add_book(last'.arg)
         /\ IsStr(last'.arg.title)
         /\ last'.arg.book_id \notin IdKeys(Cat))
        => last'.ret = "inserted"
     /\ (/\ last.op = "add_book"
         /\ last.ret = "inserted"
         /\ add_book(last.arg))
        => /\ last'.ret = "updated"
           /\ Observable(CatNext) = Observable(Cat)]_vars

\* C5 witness: the second of two equal add_book calls has returned, the
\* first having inserted, with another record in the store.
C5_Witness ==
  /\ last.op = "add_book" /\ last.before = "inserted" /\ last.ret = "updated"
  /\ Size(by_id) >= 2

\* C6: search_by_title_exact(t) returns the stored records whose lower-cased
\* title is the lower-cased t, all of them and no other, by ascending
\* identifier.
C6_ExactTitleSearch ==
  \A q \in Queries : SearchByTitleExact(Cat, q) = ExpectedExact(Cat, q)

\* C7: search_by_title_prefix(p) returns the stored records whose lower-cased
\* title starts with the lower-cased p, in (lower-cased title, identifier)
\* order; for the empty prefix that is list_all_by_title().
C7_PrefixTitleSearch ==
  /\ \A q \in Queries : SearchByTitlePrefix(Cat, q) = ExpectedPrefix(Cat, q)
  /\ SearchByTitlePrefix(Cat, <<>>) = ListAllByTitle(Cat)

\* C8: delete_by_id of an absent identifier returns False and leaves both
\* trees as they were: keys, values, links, colours.
C8_DeleteAbsent ==
  [][(/\ last'.op = "delete_by_id"
      /\ delete_by_id(last'.arg)
      /\ last'.arg \notin IdKeys(Cat))
     => /\ last'.ret = "False"
        /\ by_id' = by_id
        /\ by_title' = by_title]_vars

\* C8 witness: a delete_by_id has answered False on a store of two records.
C8_Witness ==
  /\ last.op = "delete_by_id" /\ last.ret = "False"
  /\ Size(by_id) >= 2 /\ Size(by_title) >= 2

\* C9: delete_by_id of a present identifier returns True, removes it from
\* both trees and changes nothing else: search_by_id no longer finds it, no
\* listing or title search returns it, and every other record is returned as
\* before.
C9_DeletePresent ==
  [][LET id == last'.arg
     IN (/\ last'.op = "delete_by_id"
         /\ delete_by_id(id)
         /\ id \in IdKeys(Cat))
        => /\ last'.ret = "True"
           /\ IdKeys(CatNext) = IdKeys(Cat) \ {id}
           /\ TitleIds(CatNext) = TitleIds(Cat) \ {id}
           /\ FoundById(CatNext, id) = <<>>
           /\ \A i \in BookIds \ {id} : FoundById(CatNext, i) = FoundById(Cat, i)
           /\ ListAllById(CatNext) = Without(ListAllById(Cat), id)
           /\ ListAllByTitle(CatNext) = Without(ListAllByTitle(Cat), id)
           /\ \A q \in Queries :
                /\ SearchByTitleExact(CatNext, q)
                     = Without(SearchByTitleExact(Cat, q), id)
                /\ SearchByTitlePrefix(CatNext, q)
                     = Without(SearchByTitlePrefix(Cat, q), id)]_vars

\* C10: after an add_book that failed on a record whose title is not text,
\* made directly or by a bulk load, the cross-index invariant holds, the
\* records the load applied before it are in both trees, and the malformed
\* record's identifier is in both trees or in neither.
C10_NoHalfAppliedRecord ==
  (last.op \in {"add_book", "load_from_file"} /\ last.ret = "AttributeError")
  => LET bad == IF last.op = "add_book" THEN last.arg
                ELSE last.arg[BadIndex(last.arg)]
         before == IF last.op = "add_book" THEN {}
                   ELSE {last.arg[j].book_id : j \in 1..(BadIndex(last.arg) - 1)}
     IN /\ CrossIndex(Cat)
        /\ bad.book_id \in IdKeys(Cat) <=> bad.book_id \in TitleIds(Cat)
        /\ \A i \in before \ {bad.book_id} : i \in IdKeys(Cat) /\ i \in TitleIds(Cat)

\* A new store after add_book of each record of arr, in order.
RECURSIVE AddEach(_, _)
AddEach(c, arr) ==
  IF arr = <<>> THEN c
  ELSE AddEach(AddBookTo(c, FromDict(Head(arr))).cat, Tail(arr))

\* C11: after a load_from_file of well-formed records the call has returned
\* True, everything a caller can read is what it reads from a new store on
\* which add_book was applied to each record in order, and the identifiers
\* stored are those of the batch.
C11_BulkLoadReplaces ==
  (last.op = "load_from_file" /\ \A i \in 1..Len(last.arg) : WellFormed(last.arg[i]))
  => /\ last.ret = "True"
     /\ Observable(Cat) = Observable(AddEach(Catalog(EmptyTree, EmptyTree), last.arg))
     /\ IdKeys(Cat) = {last.arg[i].book_id : i \in 1..Len(last.arg)}
     /\ TitleIds(Cat) = {last.arg[i].book_id : i \in 1..Len(last.arg)}

\* C11 witness: a load of two well-formed records that differ has returned,
\* the catalog having held records when it was called.
C11_Witness ==
  /\ last.op = "load_from_file" /\ last.before = "stored" /\ last.ret = "True"
  /\ Len(last.arg) = 2 /\ last.arg[1] # last.arg[2]
  /\ \A i \in 1..2 : WellFormed(last.arg[i])

\* The batch names an identifier twice.
HasDuplicateId(arr) ==
  \E i, j \in 1..Len(arr) : i < j /\ arr[i].book_id = arr[j].book_id

\* C12: a load_from_file of well-formed records of which one repeats the
\* identifier of an earlier one does not return True as a load of distinct
\* identifiers does: the repeated record is reported as an error.
C12_DuplicateIdsReported ==
  (/\ last.op = "load_from_file"
   /\ \A i \in 1..Len(last.arg) : WellFormed(last.arg[i])
   /\ HasDuplicateId(last.arg))
  => last.ret # "True"

\* C14: the tree and a finite map given the same insert and delete calls
\* agree after every call: inorder() yields the map's pairs by ascending key,
\* search(k) returns the map's value for k or None when k is not in the map,
\* size() is the number of keys of the map, and delete(k) returns True
\* exactly when k was in the map.
C14_OrderedMapRefinement ==
  /\ [](LET kv == Inorder(tree)
        IN /\ Len(kv) = Cardinality(DOMAIN ref)
           /\ \A i \in 1..Len(kv) :
                kv[i][1][1] \in DOMAIN ref /\ kv[i][2] = ref[kv[i][1][1]]
           /\ \A i, j \in 1..Len(kv) : i < j => kv[i][1][1] < kv[j][1][1]
           /\ \A k \in TreeKeys :
                Search(tree, IntKey(k)) = IF k \in DOMAIN ref THEN ref[k] ELSE None
           /\ Size(tree) = Cardinality(DOMAIN ref))
  /\ [][(tlast'.op = "delete" /\ delete(tlast'.key))
        => (tlast'.ret = "True" <=> tlast'.key \in DOMAIN ref)]_vars

\* C14 witness: a delete has removed a key from a tree that then holds four
\* keys, two of them with values that differ.
C14_Witness ==
  /\ tlast.op = "delete" /\ tlast.ret = "True"
  /\ Cardinality(DOMAIN ref) = 4
  /\ \E j, k \in DOMAIN ref : ref[j] # ref[k]

\* The keys the stand-alone tree holds.
KeysOf(T) == LET kv == Inorder(T) IN {kv[i][1][1] : i \in 1..Len(kv)}

\* C15: an insert of a key the tree holds changes the value of the node that
\* holds it and nothing else: the nodes are the same, the root is the same,
\* every link, colour and key is as before, every other value is as before,
\* and no rotation was made.
C15_InsertExistingReplacesValue ==
  [][(/\ tlast'.op = "insert"
      /\ insert(tlast'.key, tlast'.value)
      /\ tlast'.key \in KeysOf(tree))
     => /\ DOMAIN tree'.n = DOMAIN tree.n
        /\ tree'.root = tree.root
        /\ tlast'.rot = 0
        /\ \A x \in DOMAIN tree.n :
             /\ tree'.n[x].key = tree.n[x].key
             /\ tree'.n[x].left = tree.n[x].left
             /\ tree'.n[x].right = tree.n[x].right
             /\ tree'.n[x].parent = tree.n[x].parent
             /\ tree'.n[x].color = tree.n[x].color
             /\ tree'.n[x].value = IF x # NIL /\ tree.n[x].key = IntKey(tlast'.key)
                                   THEN tlast'.value ELSE tree.n[x].value]_vars

\* C15 witness: an insert has found its key in a tree of four keys or more
\* and has given it a value that another key does not have.
C15_Witness ==
  /\ tlast.op = "insert" /\ tlast.ret = "existing"
  /\ Size(tree) >= 4
  /\ \E k \in DOMAIN ref : ref[k] # tlast.value

\* The keys lower_bound_node is asked for: those of the tree, one below and
\* one above.
BoundQueries == 0..(MaxKey + 1)

\* C16: lower_bound_node(q) returns None exactly when every key of the tree
\* is less than q, and otherwise the node of the least key that is at least q.
C16_LowerBound ==
  \A q \in BoundQueries :
    LET lb == LowerBoundNode(tree, IntKey(q))
        ge == {k \in KeysOf(tree) : k >= q}
    IN /\ lb = NIL <=> ge = {}
       /\ lb # NIL => /\ lb \in Linked(tree)
                      /\ tree.n[lb].key[1] \in ge
                      /\ \A k \in ge : tree.n[lb].key[1] <= k

\* C16 witness: in a tree of three keys or more a query between two keys is
\* answered with a key greater than it, a query for a key of the tree with
\* that key, and a query above every key with None.
C16_Witness ==
  /\ Size(tree) >= 3
  /\ \E q \in BoundQueries :
       /\ q \notin KeysOf(tree)
       /\ \E k \in KeysOf(tree) : k < q
       /\ LowerBoundNode(tree, IntKey(q)) # NIL
  /\ \E q \in KeysOf(tree) : tree.n[LowerBoundNode(tree, IntKey(q))].key = IntKey(q)
  /\ \E q \in BoundQueries : LowerBoundNode(tree, IntKey(q)) = NIL

\* The keys met by following _successor from node x.
RECURSIVE SuccessorWalk(_, _)
SuccessorWalk(T, x) ==
  IF x = NIL THEN <<>> ELSE <<T.n[x].key>> \o SuccessorWalk(T, Successor(T, x))

\* C17: for every node n of the tree _successor(n) is the node of the least
\* key greater than n's, and None exactly when n holds the greatest key; the
\* walk by _successor from the minimum node meets the keys of inorder() in
\* the same order.
C17_Successor ==
  /\ \A x \in Linked(tree) :
       LET s  == Successor(tree, x)
           gt == {k \in KeysOf(tree) : k > tree.n[x].key[1]}
       IN /\ s = NIL <=> gt = {}
          /\ s # NIL => /\ s \in Linked(tree)
                        /\ tree.n[s].key[1] \in gt
                        /\ \A k \in gt : tree.n[s].key[1] <= k
  /\ tree.root # NIL =>
       LET kv == Inorder(tree)
       IN SuccessorWalk(tree, Minimum(tree, tree.root)) = [i \in 1..Len(kv) |-> kv[i][1]]

\* C17 witness: after a delete that rotated, the tree holds four keys and
\* the successor of one of its nodes is reached by climbing two parent links.
C17_Witness ==
  /\ tlast.op = "delete" /\ tlast.ret = "True" /\ tlast.rot >= 1
  /\ Size(tree) >= 4
  /\ \E x \in Linked(tree) :
       /\ tree.n[x].right = NIL
       /\ Successor(tree, x) # NIL
       /\ Successor(tree, x) # tree.n[x].parent

\* The sentinel of T is BLACK, its left and right links are the sentinel, it
\* holds no key and no value, and the parent of the root is the sentinel.
SentinelButParent(T) ==
  /\ T.n[NIL].color = BLACK
  /\ T.n[NIL].left = NIL
  /\ T.n[NIL].right = NIL
  /\ T.n[NIL].key = None
  /\ T.n[NIL].value = None
  /\ T.n[T.root].parent = NIL

\* C18 as stated: after every insert and delete the sentinel is BLACK, its
\* left, right and parent links are the sentinel, it holds no key, and the
\* parent of the root is the sentinel.
C18_SentinelInvariant ==
  SentinelButParent(tree) /\ tree.n[NIL].parent = NIL

\* C18 amended: after every insert and delete the sentinel is BLACK, its left
\* and right links are the sentinel, it holds no key, and the parent of the
\* root is the sentinel; its parent link is whatever the last _transplant with
\* the sentinel as v left in it.
C18_SentinelExceptParent ==
  /\ SentinelButParent(tree)
  /\ tree.n[NIL].parent \in Linked(tree) \cup {NIL, Detached}

\* C18 witness: a delete has returned and left the sentinel's parent link on
\* a node of a tree of three keys or more, a node that is not the root.
C18_Witness ==
  /\ tlast.op = "delete" /\ tlast.ret = "True"
  /\ Size(tree) >= 3
  /\ tree.n[NIL].parent \in Linked(tree) \ {tree.root}

\* C19: the identifier of the anchor of the title searches, -sys.maxsize, is
\* at most the identifier of every stored record, so that no by_title key
\* sorts before the anchor made of its own lower-cased title.
C19_AnchorBound ==
  /\ \A i \in IdKeys(Cat) : AnchorId <= i
  /\ \A k \in TitleKeys(Cat) : KeyGE(k, <<k[1], AnchorId>>)

\* The colour of each key of T, and the key of the parent of each (None for
\* the root).
ColourOf(T) == {<<T.n[x].key, T.n[x].color>> : x \in Linked(T)}

ParentOf(T) == {<<T.n[x].key, T.n[T.n[x].parent].key>> : x \in Linked(T)}

\* The key next below k and the key next above k among those of T, as the
\* set of those that exist.
Neighbours(T, k) ==
  {j \in KeysOf(T) : /\ j # k
                     /\ \A i \in KeysOf(T) : ~(j < i /\ i < k) /\ ~(k < i /\ i < j)}

C13_NoTornView == seen.by_id_count = seen.by_title_count

\* The nodes a pass of the loop that is about to run reads through x: the
\* parent and the grandparent of z in _insert_fixup (z.parent.parent.left),
\* the parent and the sibling w of x in _delete_fixup (w.left.color).
ReadThrough(T, c) ==
  IF c.pc = "insert_fixup" /\ InsertFixupGoesOn(T, c.x)
  THEN {T.n[c.x].parent, T.n[T.n[c.x].parent].parent}
  ELSE IF c.pc = "delete_fixup" /\ DeleteFixupGoesOn(T, c.x)
  THEN {T.n[c.x].parent,
        IF c.x = T.n[T.n[c.x].parent].left
        THEN T.n[T.n[c.x].parent].right ELSE T.n[T.n[c.x].parent].left}
  ELSE {}

TitleEntries(c) == LET kv == Inorder(c.by_title) IN {kv[i] : i \in 1..Len(kv)}

\* C22: every entry of by_title is under the identifier of a stored record
\* and holds the record by_id holds for that identifier; so every record that
\* list_all_by_title or a title search returns is the one search_by_id
\* returns for its identifier.
C22_SameRecordInBothIndices ==
  /\ \A e \in TitleEntries(Cat) :
       /\ e[1][2] \in IdKeys(Cat)
       /\ e[2] = StoredBook(Cat, e[1][2])
  /\ \A i \in 1..Len(ListAllByTitle(Cat)) :
       <<ListAllByTitle(Cat)[i]>> = FoundById(Cat, ListAllByTitle(Cat)[i].book_id)
  /\ \A q \in Queries :
       /\ \A i \in 1..Len(SearchByTitleExact(Cat, q)) :
            <<SearchByTitleExact(Cat, q)[i]>>
              = FoundById(Cat, SearchByTitleExact(Cat, q)[i].book_id)
       /\ \A i \in 1..Len(SearchByTitlePrefix(Cat, q)) :
            <<SearchByTitlePrefix(Cat, q)[i]>>
              = FoundById(Cat, SearchByTitlePrefix(Cat, q)[i].book_id)

\* C22 witness: an add_book has updated a stored record to one with another
\* author, and list_all_by_title returns the new record among two or more.
C22_Witness ==
  /\ last.op = "add_book" /\ last.ret = "updated" /\ last.arg.author = "Gamma"
  /\ Len(ListAllByTitle(Cat)) >= 2
  /\ \E i \in 1..Len(ListAllByTitle(Cat)) : ListAllByTitle(Cat)[i] = last.arg

====
